---- MODULE Spec2Model ----
(***************************************************************************)
(* A model of server-knocker: the resettable idle timer (src/timer),       *)
(* the process supervisor (src/main.rs, src/child), the TCP proxy          *)
(* (src/proxy/mod.rs) and the UDP proxy (src/proxy/udp.rs).                *)
(*                                                                         *)
(* Time is discrete.  Tick advances it by one unit; every sleep is a       *)
(* countdown that Tick decrements and every measured interval is a         *)
(* counter that Tick increments and that saturates at the length it is     *)
(* compared with, which keeps the state space finite without stopping the  *)
(* clock.  A task that has been woken is polled by an action of its own:   *)
(* time may pass between the wake-up and the poll, as it may on the        *)
(* multi-threaded runtime of main.rs:69.                                   *)
(***************************************************************************)
EXTENDS Integers, Sequences, FiniteSets, TLC

\* ------------------------------------------------------------------ bounds

\* --idle-timeout, in ticks (main.rs:75).
IdleTimeout == 3
\* Calls of ResetGuard::reset the timer harness makes.
MaxResets == 2
\* Timers the harness replaces by a new run_after while keeping their guard.
MaxAbandoned == 2

\* --grace-period, in ticks (main.rs:76).
GracePeriod == 2
\* Children the supervisor spawns in one run (the initial one included).
MaxSpawns == 2
\* Process ids the operating system hands out; an id is free again once the
\* process that held it has been reaped.
MaxPids == 2

\* Bytes the peers write while the accept loop is followed too.
ForwardBytes == 1

\* Connections the TCP listener accepts in one run.
MaxConns == 2
\* Bytes the peers of the TCP proxy write in one run, all sockets together.
MaxBytes == 4
\* BUFFER_SIZE of pipe_sockets (proxy/mod.rs:52), scaled down from 1536.
BufferSize == 2

\* Datagrams the UDP listen socket receives in one run.
MaxDatagrams == 3
\* Client sessions the UDP proxy creates in one run.
MaxSessions == 2
\* Datagrams the destination sends to backend sockets in one run.
MaxReplies == 2
\* Capacity of a session's queue (proxy/udp.rs:97), scaled down from 512.
QueueCap == 1
\* Capacity of the response channel (proxy/udp.rs:60), scaled down from 512.
ResponseCap == 2

Min(a, b) == IF a < b THEN a ELSE b
Max(a, b) == IF a > b THEN a ELSE b

\* ------------------------------------------------------------------- state

VARIABLES
    \* --- the ResetSignal timer (timer/mod.rs) of the current cycle
    timerState,      \* "spawned" | "running" | "done" | "aborted"
    sleepLeft,       \* ticks until the task's tokio::time::sleep elapses
    waiterNotified,  \* the task's registered Notified future was notified
    notifyPermit,    \* the Notify holds a stored permit
    abandoned,       \* per replaced timer whose guard is still held: the
                     \* reset() calls made on that guard since
    \* --- measurements of the timer harness
    sinceReset,      \* ticks since the last reset (or since run_after, or
                     \* since the cycle began), saturating at IdleTimeout
    resets,          \* reset() calls made before the timer completed
    spaced,          \* every reset so far came < IdleTimeout after the previous
    \* --- the supervisor task (main.rs:85-139) and the processes it spawned
    supPc,           \* "start" | "select" | "term" | "wait" | "failed"
    children,        \* the vector `children`: instances, in push order
    draining,        \* what children.drain(0..) has still to hand out
    proc,            \* instance -> its process (see NoProc)
    nspawned,        \* instances spawned so far
    \* --- the watch channel (main.rs:80) and the Notify (main.rs:82)
    chanValue,       \* the channel's current value
    chanChanged,     \* a value was sent since the receiver last saw one
    gatePermit,      \* can_proxy_resume holds a stored permit
    unknownSent,     \* an UnknownError was sent
    \* --- main (main.rs:141-159)
    proxy,           \* "serving" | "returned": the proxy's start()
    exited,          \* main has returned: the runtime is shut down
    \* --- TCPProxy::start (proxy/mod.rs:129-189) and its forwarding tasks
    holdMode,        \* can_resume is Some(..): --hold-packets was given
    acceptPc,        \* "off" | "accept" | "dial" | "parked" | "returned"
    dialResult,      \* "none" | "Ok" | the ErrorKind of the last connect
    retErr,          \* "none" | the error start() returned
    nconns,          \* connections accepted so far
    connState,       \* connection -> "none" | "dialing" | "dropped" | "piping"
    pipe,            \* <<connection, direction>> -> forwarding task (NoPipe)
    \* --- UDPProxy::start (proxy/udp.rs:57-167) and its tasks
    udpPc,           \* "off" | "recv" | "send" | "returned"
    udpSrc,          \* src_addr of the datagram being enqueued
    nrecv,           \* datagrams received on the listen socket
    clientMap,       \* client_map: client id -> session, 0 for no entry
    nsessions,       \* sessions created so far
    sess,            \* session -> its tasks, queue and socket (NoSession)
    respQueue,       \* the response channel: <<[addr, origin], ..>>
    responder,       \* the respond task: "none" | "alive" | "dead"
    nreplies,        \* datagrams the destination sent so far
    delivered        \* [to, origin]: replies sent from the listen socket

timerVars == <<timerState, sleepLeft, waiterNotified, notifyPermit, abandoned>>
harnessVars == <<sinceReset, resets, spaced>>
supVars == <<supPc, children, draining, proc, nspawned>>
chanVars == <<chanValue, chanChanged, gatePermit, unknownSent>>
mainVars == <<proxy, exited>>
tcpVars == <<holdMode, acceptPc, dialResult, retErr, nconns, connState, pipe>>
udpVars == <<udpPc, udpSrc, nrecv, clientMap, nsessions, sess, respQueue,
             responder, nreplies, delivered>>
netVars == <<tcpVars, udpVars>>
vars == <<timerVars, harnessVars, supVars, chanVars, mainVars, netVars>>

\* ------------------------------------------------------------------- timer

\* select! without `biased;` polls its branches starting from a random one.
SelectOrder == {"notified", "sleep"}

\* tokio::time::sleep(duration): the countdown a new sleep starts with.
NewSleepShort == IdleTimeout - 1
NewSleep == IdleTimeout

\* ResetSignal::run_after: spawns the task and hands out the guard.  The
\* task has not been polled yet: no sleep exists and no waiter is registered.
RunAfter ==
    /\ timerState' = "spawned"
    /\ sleepLeft' = NewSleep
    /\ waiterNotified' = FALSE
    /\ notifyPermit' = FALSE

\* Notify::notify_one, as ResetGuard::reset calls it: a registered waiter
\* that has no notification yet receives it, otherwise one permit is stored.
NotifyOne ==
    IF timerState = "running" /\ ~waiterNotified
    THEN /\ waiterNotified' = TRUE
         /\ UNCHANGED notifyPermit
    ELSE /\ notifyPermit' = TRUE
         /\ UNCHANGED waiterNotified

\* The first poll of the spawned task: the loop is entered, notified() and
\* sleep(duration) are created and polled.  A stored permit completes
\* notified() at once and the loop creates both again, to the same effect.
TimerFirstPoll ==
    /\ timerState = "spawned"
    /\ timerState' = "running"
    /\ sleepLeft' = NewSleep
    /\ waiterNotified' = FALSE
    /\ notifyPermit' = FALSE
    /\ UNCHANGED <<abandoned, harnessVars, supVars, chanVars, mainVars>>
    /\ UNCHANGED netVars

\* A later poll of the task, woken by the sleep or by notify_one.  Whichever
\* ready branch select! polls first wins: the sleep breaks the loop, the
\* notification starts the next iteration, whose new notified() takes a
\* stored permit and whose new sleep counts from this poll.
TimerTaskPoll(order) ==
    /\ timerState = "running"
    /\ \/ /\ sleepLeft = 0
          /\ order = "sleep" \/ ~waiterNotified
          /\ timerState' = "done"
          /\ UNCHANGED <<sleepLeft, waiterNotified, notifyPermit>>
       \/ /\ waiterNotified
          /\ order = "notified" \/ sleepLeft > 0
          /\ sleepLeft' = NewSleep
          /\ waiterNotified' = FALSE
          /\ notifyPermit' = FALSE
          /\ UNCHANGED timerState
    /\ UNCHANGED <<abandoned, harnessVars, supVars, chanVars, mainVars>>
    /\ UNCHANGED netVars

\* The owner of the guard calls reset() (timer/mod.rs:14, as the test
\* does_expire does at timer/mod.rs:87).
HarnessReset ==
    /\ resets < MaxResets
    /\ NotifyOne
    /\ IF timerState = "done"
       THEN UNCHANGED <<sinceReset, resets, spaced>>
       ELSE /\ sinceReset' = 0
            /\ resets' = resets + 1
            /\ spaced' = (spaced /\ sinceReset < IdleTimeout)
    /\ UNCHANGED <<timerState, sleepLeft, abandoned>>
    /\ UNCHANGED <<supVars, chanVars, mainVars>>
    /\ UNCHANGED netVars

\* ResetGuard::reset on the k-th guard kept from a replaced timer
\* (timer/mod.rs:14-16): notify_one on that guard's own Notify, which
\* run_after gave to the replaced task alone.  Neither that task nor
\* anything else waits on it any more, so all the call leaves is a permit.
OldGuardResetShared(k) ==
    /\ abandoned' = [abandoned EXCEPT ![k] = @ + 1]
    /\ NotifyOne

OldGuardReset(k) ==
    /\ abandoned' = [abandoned EXCEPT ![k] = @ + 1]
    /\ UNCHANGED <<waiterNotified, notifyPermit>>

\* The owner of a guard calls reset() on it after its timer was replaced.
StaleReset(k) ==
    /\ k \in DOMAIN abandoned
    /\ abandoned[k] < MaxResets
    /\ OldGuardReset(k)
    /\ UNCHANGED <<timerState, sleepLeft, harnessVars>>
    /\ UNCHANGED <<supVars, chanVars, mainVars>>
    /\ UNCHANGED netVars

\* The owner replaces the timer as the supervisor does at the end of an
\* iteration (main.rs:137, 88): handle.abort(), then run_after on a new
\* ResetSignal, that is, on a new Notify; it keeps the old guard.
HarnessAbandon ==
    /\ Len(abandoned) < MaxAbandoned
    /\ abandoned' = Append(abandoned, 0)
    /\ RunAfter
    /\ sinceReset' = 0
    /\ resets' = 0
    /\ spaced' = TRUE
    /\ UNCHANGED <<supVars, chanVars, mainVars>>
    /\ UNCHANGED netVars

\* -------------------------------------------------- processes and signals

Events == {"Nothing", "GotPacket", "DestinationNotResponding", "UnknownError"}
Instances == 1..MaxSpawns
PidSpace == 1..MaxPids

\* A process the supervisor has not spawned yet.
\*   pid        its process id, which setsid() makes its session and
\*              process-group id too (child/mod.rs:66-70)
\*   state      "unborn" | "running" | "zombie" (exited, not waited for)
\*              | "reaped"
\*   termed     kill_process_group(SIGTERM) succeeded on it
\*   sinceTerm  ticks since then, saturating at GracePeriod
\*   kill       the task of try_kill_process_group_after: "none" |
\*              "pending" | "fired" | "dropped" (the runtime ended first)
\*   killLeft   ticks until that task's sleep elapses
NoProc ==
    [pid |-> 0, state |-> "unborn", termed |-> FALSE, sinceTerm |-> 0,
     kill |-> "none", killLeft |-> 0]

\* The instances whose process group has id p: a process keeps its id until
\* it is reaped.
Holder(p) ==
    {i \in Instances : proc[i].pid = p /\ proc[i].state \in {"running", "zombie"}}

\* The ids fork can hand out.
FreePids == {p \in PidSpace : Holder(p) = {}}

\* child::spawn_child succeeding: instance i runs with process id p.
Spawned(i, p) ==
    [proc EXCEPT ![i] = [NoProc EXCEPT !.pid = p, !.state = "running"]]

\* The children the supervisor holds: the vector and what a drain in
\* progress has not handed out yet.
Tracked == {children[k] : k \in DOMAIN children} \cup
           {draining[k] : k \in DOMAIN draining}

\* The sleep try_kill_process_group_after starts with (child/mod.rs:35).
KillDelayShort == GracePeriod - 1
KillDelay == GracePeriod

\* The end of a loop iteration and the start of the next (main.rs:137, 88):
\* the old timer is aborted and run_after starts a new one.
LoopAgain ==
    /\ RunAfter
    /\ UNCHANGED <<abandoned, resets, spaced>>

\* The first statement of the supervisor task (main.rs:86) and its first
\* run_after: spawn_child either fails, and `?` ends the task, or gives the
\* first tracked child.
SupervisorStart(ok, p) ==
    /\ supPc = "start"
    /\ ~exited
    /\ IF ok /\ p \in FreePids
       THEN /\ proc' = Spawned(1, p)
            /\ nspawned' = 1
            /\ children' = <<1>>
            /\ supPc' = "select"
            /\ LoopAgain
            /\ sinceReset' = 0
       ELSE /\ supPc' = "failed"
            /\ UNCHANGED <<proc, nspawned, children, timerVars, harnessVars>>
    /\ UNCHANGED <<draining, chanVars, mainVars>>
    /\ UNCHANGED netVars

\* What follows the last child of a drain, or an empty drain: the iteration
\* ends and a new cycle starts with a new timer.
NewCycle ==
    /\ supPc' = "select"
    /\ LoopAgain
    /\ sinceReset' = 0

\* The children are visited and stay in the vector, as iter_mut() would do.
StartDrainKeeping ==
    /\ draining' = children
    /\ children' = children

\* children.drain(0..) (main.rs:91): the vector gives up all its elements,
\* which for_each visits in order.
StartDrain ==
    /\ draining' = children
    /\ children' = <<>>

\* select! completes with the timer's handle (main.rs:90-111): the drain of
\* `children` starts; an empty vector ends the iteration at once.
SupExpired(order) ==
    /\ supPc = "select"
    /\ ~exited
    /\ timerState = "done"
    /\ order = "handle" \/ ~chanChanged
    /\ IF children = <<>>
       THEN /\ NewCycle
            /\ UNCHANGED <<children, draining>>
       ELSE /\ StartDrain
            /\ supPc' = "term"
            /\ UNCHANGED <<timerVars, harnessVars>>
    /\ UNCHANGED <<proc, nspawned, chanVars, mainVars>>
    /\ UNCHANGED netVars

\* After a drained child is done with: the next one, or the new cycle.
NextDrained ==
    /\ draining' = Tail(draining)
    /\ IF Tail(draining) = <<>>
       THEN NewCycle
       ELSE /\ supPc' = "term"
            /\ UNCHANGED <<timerVars, harnessVars>>

\* The error ends the supervisor task, as `?` would.
TermFailedFatal ==
    /\ supPc' = "failed"
    /\ UNCHANGED <<draining, timerVars, harnessVars, proc>>

\* kill_process_group(SIGTERM) returned Err (main.rs:106-108): the error is
\* logged, the closure returns and for_each goes on to the next child.
TermFailed ==
    /\ NextDrained
    /\ UNCHANGED proc

\* The closure of the drain up to c.wait() (main.rs:92-96, 106-108):
\* kill_process_group(SIGTERM) on the child; when it succeeds the delayed
\* SIGKILL is scheduled with the session id read now (child/mod.rs:33-44),
\* when it fails the error is logged and the child is dropped.  getsid
\* cannot fail here: the child has not been waited for.
SupTerm(termOk) ==
    /\ supPc = "term"
    /\ ~exited
    /\ LET c == Head(draining) IN
       IF termOk
       THEN /\ proc' = [proc EXCEPT ![c].termed = TRUE,
                                    ![c].sinceTerm = 0,
                                    ![c].kill = "pending",
                                    ![c].killLeft = KillDelay]
            /\ supPc' = "wait"
            /\ UNCHANGED <<draining, timerVars, harnessVars>>
       ELSE TermFailed
    /\ UNCHANGED <<children, nspawned, chanVars, mainVars>>
    /\ UNCHANGED netVars

\* c.wait() returning (main.rs:97-104): the call blocks the supervisor
\* until the child has exited, and reaps it.
SupWait ==
    /\ supPc = "wait"
    /\ ~exited
    /\ proc[Head(draining)].state = "zombie"
    /\ proc' = [proc EXCEPT ![Head(draining)].state = "reaped",
                             ![Head(draining)].sinceTerm = 0]
    /\ NextDrained
    /\ UNCHANGED <<children, nspawned, chanVars, mainVars>>
    /\ UNCHANGED netVars

\* c.wait() returning Err (main.rs:101-103): the error is logged and the
\* closure returns.  waitpid on the id of a child of this process fails
\* only with ECHILD (the standard library retries EINTR): the child has
\* exited and the kernel has already released it, its id is free.
SupWaitFail ==
    /\ supPc = "wait"
    /\ ~exited
    /\ proc[Head(draining)].state = "zombie"
    /\ proc' = [proc EXCEPT ![Head(draining)].state = "reaped",
                             ![Head(draining)].sinceTerm = 0]
    /\ NextDrained
    /\ UNCHANGED <<children, nspawned, chanVars, mainVars>>
    /\ UNCHANGED netVars

\* A child that received SIGTERM exits; it may also never do so.
ChildExit(i) ==
    /\ ~exited
    /\ proc[i].state = "running"
    /\ proc[i].termed
    /\ proc' = [proc EXCEPT ![i].state = "zombie"]
    /\ UNCHANGED <<supPc, children, draining, nspawned>>
    /\ UNCHANGED <<timerVars, harnessVars, chanVars, mainVars>>
    /\ UNCHANGED netVars

\* The task of try_kill_process_group_after once its sleep has elapsed
\* (child/mod.rs:36): killpg(sid, SIGKILL) goes to whichever process group
\* has the id sid now; none having it, killpg fails and that is only traced.
KillFire(i) ==
    /\ ~exited
    /\ proc[i].kill = "pending"
    /\ proc[i].killLeft = 0
    /\ proc' = [j \in Instances |->
                 LET a == IF j \in Holder(proc[i].pid)
                          THEN [proc[j] EXCEPT !.state = "zombie"]
                          ELSE proc[j]
                 IN IF j = i THEN [a EXCEPT !.kill = "fired", !.killLeft = 0]
                    ELSE a]
    /\ UNCHANGED <<supPc, children, draining, nspawned>>
    /\ UNCHANGED <<timerVars, harnessVars, chanVars, mainVars>>
    /\ UNCHANGED netVars

\* ------------------------------------------------- the channel of events

\* notification.send_replace(GotPacket) of a forwarding task
\* (proxy/mod.rs:60), notification.send(GotPacket) of the UDP loop
\* (proxy/udp.rs:80).
PublishGotPacket ==
    /\ ~exited
    /\ chanValue' = "GotPacket"
    /\ chanChanged' = TRUE
    /\ UNCHANGED <<gatePermit, unknownSent>>
    /\ UNCHANGED <<timerVars, harnessVars, supVars, mainVars>>
    /\ UNCHANGED netVars

\* send_replace(DestinationNotResponding) of the accept loop
\* (proxy/mod.rs:153-155), send of the UDP loop (proxy/udp.rs:163).
PublishDestinationNotResponding ==
    /\ ~exited
    /\ proxy = "serving"
    /\ nspawned < MaxSpawns
    /\ chanValue' = "DestinationNotResponding"
    /\ chanChanged' = TRUE
    /\ UNCHANGED <<gatePermit, unknownSent>>
    /\ UNCHANGED <<timerVars, harnessVars, supVars, mainVars>>
    /\ UNCHANGED netVars

\* send_replace(UnknownError) of the accept loop, whose start() returns the
\* dial error right after (proxy/mod.rs:166-167, 173).
PublishUnknownError ==
    /\ ~exited
    /\ proxy = "serving"
    /\ chanValue' = "UnknownError"
    /\ chanChanged' = TRUE
    /\ unknownSent' = TRUE
    /\ proxy' = "returned"
    /\ UNCHANGED <<gatePermit, exited>>
    /\ UNCHANGED <<timerVars, harnessVars, supVars>>
    /\ UNCHANGED netVars

\* `?` on the proxy's start() in main (main.rs:143-155): main returns the
\* error and the runtime is shut down with every task on it: a delayed
\* SIGKILL still sleeping (child/mod.rs:34-35) is dropped with its task.
ProgramExit ==
    /\ ~exited
    /\ proxy = "returned"
    /\ exited' = TRUE
    /\ proc' = [i \in Instances |->
                 IF proc[i].kill = "pending"
                 THEN [proc[i] EXCEPT !.kill = "dropped"] ELSE proc[i]]
    /\ UNCHANGED <<supPc, children, draining, nspawned>>
    /\ UNCHANGED <<proxy, timerVars, harnessVars, chanVars>>
    /\ UNCHANGED netVars

\* --------------------------------------- the supervisor's event handlers

\* ProxyEvent::GotPacket (main.rs:126-129): timer_guard.reset(), and then
\* the end of the iteration: the timer just reset is aborted and replaced.
HandleGotPacket ==
    /\ LoopAgain
    /\ sinceReset' = 0
    /\ UNCHANGED <<supVars, gatePermit>>

\* ProxyEvent::Nothing (main.rs:130-132).
HandleNothing ==
    /\ LoopAgain
    /\ UNCHANGED <<supVars, sinceReset, gatePermit>>

\* The error is logged and the loop goes on.
HandleUnknownErrorIgnored ==
    /\ LoopAgain
    /\ UNCHANGED <<supVars, sinceReset, gatePermit>>

\* ProxyEvent::UnknownError (main.rs:122-125): the task returns the error.
\* Its timer's handle is dropped, not aborted.
HandleUnknownError ==
    /\ supPc' = "failed"
    /\ UNCHANGED <<children, draining, proc, nspawned>>
    /\ UNCHANGED <<timerVars, harnessVars, gatePermit>>

\* ProxyEvent::DestinationNotResponding (main.rs:115-121): spawn_child
\* either fails, and `?` ends the task, or gives one more tracked child,
\* and notify_one stores a permit in can_proxy_resume.
HandleDestinationNotResponding(ok, p) ==
    IF ok /\ p \in FreePids /\ nspawned < MaxSpawns
    THEN /\ proc' = Spawned(nspawned + 1, p)
         /\ nspawned' = nspawned + 1
         /\ children' = Append(children, nspawned + 1)
         /\ gatePermit' = TRUE
         /\ LoopAgain
         /\ UNCHANGED <<supPc, draining, sinceReset>>
    ELSE /\ supPc' = "failed"
         /\ UNCHANGED <<children, draining, proc, nspawned>>
         /\ UNCHANGED <<timerVars, harnessVars, gatePermit>>

\* select! completes with network_receiver.changed() (main.rs:112-134):
\* the value is marked seen and the channel's current value is matched.
SupEvent(order, ok, p) ==
    /\ supPc = "select"
    /\ ~exited
    /\ chanChanged
    /\ order = "changed" \/ timerState # "done"
    /\ chanChanged' = FALSE
    /\ CASE chanValue = "DestinationNotResponding" ->
                HandleDestinationNotResponding(ok, p)
         [] chanValue = "UnknownError" -> HandleUnknownError
         [] chanValue = "GotPacket" -> HandleGotPacket
         [] OTHER -> HandleNothing
    /\ UNCHANGED <<chanValue, unknownSent, mainVars>>
    /\ UNCHANGED netVars

\* ------------------------------------------------------------ the TCP proxy

Conns == 1..MaxConns
\* "up": client to destination; "down": destination to client
\* (the two pipe_sockets tasks of proxy/mod.rs:178-187).
Dirs == {"up", "down"}
Pipes == Conns \X Dirs
Bytes == {0, 1}

\* The kinds of io::Error that connect() is given here.
ErrorKinds ==
    {"BrokenPipe", "ConnectionAborted", "TimedOut", "ConnectionReset",
     "ConnectionRefused", "AddrNotAvailable", "PermissionDenied"}

\* The first arm of `match e.kind()` (proxy/mod.rs:148-152).
TransientKindsNarrow ==
    {"BrokenPipe", "ConnectionAborted", "ConnectionReset", "ConnectionRefused"}
TransientKinds ==
    {"BrokenPipe", "ConnectionAborted", "TimedOut", "ConnectionReset",
     "ConnectionRefused"}

\* A forwarding task and the socket it reads:
\*   state     "unspawned" | "reading" | "writing" | "ended" | "failed"
\*   inflight  bytes the peer wrote that the task has not read yet
\*   closed    the peer has shut down its sending side
\*   rbuf      reader_buffer, BufferSize bytes ([0; BUFFER_SIZE] at first)
\*   nread     bytes_read of the last read
\*   out       bytes written to the writer so far
\*   sent      every byte the peer wrote, in order
NoPipe ==
    [state |-> "unspawned", inflight |-> <<>>, closed |-> FALSE,
     rbuf |-> [i \in 1..BufferSize |-> 0], nread |-> 0,
     out |-> <<>>, sent |-> <<>>]

RECURSIVE Written(_)
Written(S) ==
    IF S = {} THEN 0
    ELSE LET q == CHOOSE x \in S : TRUE
         IN Len(pipe[q].sent) + Written(S \ {q})

\* The proxy is not the TCP one.
NoTcp ==
    /\ holdMode = FALSE
    /\ acceptPc = "off"
    /\ dialResult = "none"
    /\ retErr = "none"
    /\ nconns = 0
    /\ connState = [c \in Conns |-> "none"]
    /\ pipe = [q \in Pipes |-> NoPipe]

\* TcpListener::bind succeeded (proxy/mod.rs:130); --hold-packets or not.
TcpListening ==
    /\ holdMode \in BOOLEAN
    /\ acceptPc = "accept"
    /\ dialResult = "none"
    /\ retErr = "none"
    /\ nconns = 0
    /\ connState = [c \in Conns |-> "none"]
    /\ pipe = [q \in Pipes |-> NoPipe]

\* start() returns Err(e): main's `?` is next (main.rs:148-155).
Returns(e) ==
    /\ acceptPc' = "returned"
    /\ retErr' = e
    /\ proxy' = "returned"

\* listener.accept() gives a connection (proxy/mod.rs:133-134).
TcpAccept ==
    /\ ~exited
    /\ acceptPc = "accept"
    /\ nconns < MaxConns
    /\ nconns' = nconns + 1
    /\ connState' = [connState EXCEPT ![nconns + 1] = "dialing"]
    /\ acceptPc' = "dial"
    /\ dialResult' = "none"
    /\ UNCHANGED <<holdMode, retErr, pipe>>
    /\ UNCHANGED <<timerVars, harnessVars, supVars, chanVars, mainVars>>
    /\ UNCHANGED udpVars

\* listener.accept() fails and `?` returns the error (proxy/mod.rs:133).
TcpAcceptFail ==
    /\ ~exited
    /\ acceptPc = "accept"
    /\ Returns("accept")
    /\ UNCHANGED <<holdMode, dialResult, nconns, connState, pipe, exited>>
    /\ UNCHANGED <<timerVars, harnessVars, supVars, chanVars>>
    /\ UNCHANGED udpVars

\* TcpSocket::new_v4()/new_v6() fails and `?` returns the error
\* (proxy/mod.rs:137-141); input_socket is dropped.
TcpSocketFail ==
    /\ ~exited
    /\ acceptPc = "dial"
    /\ Returns("socket")
    /\ connState' = [connState EXCEPT ![nconns] = "dropped"]
    /\ UNCHANGED <<holdMode, dialResult, nconns, pipe, exited>>
    /\ UNCHANGED <<timerVars, harnessVars, supVars, chanVars>>
    /\ UNCHANGED udpVars

\* Ok(s) => break Ok(s), then the two tasks are spawned and the loop goes
\* back to accept (proxy/mod.rs:145, 175-188).
DialOk ==
    /\ connState' = [connState EXCEPT ![nconns] = "piping"]
    /\ pipe' = [q \in Pipes |->
                  IF q[1] = nconns THEN [pipe[q] EXCEPT !.state = "reading"]
                  ELSE pipe[q]]
    /\ acceptPc' = "accept"
    /\ UNCHANGED <<retErr, chanVars, mainVars>>

\* The transient arm (proxy/mod.rs:153-162, 170): DestinationNotResponding
\* is sent; with a gate the loop waits on it to dial again, without one
\* `continue 'accept_connection` drops input_socket.
DialTransient ==
    /\ chanValue' = "DestinationNotResponding"
    /\ chanChanged' = TRUE
    /\ IF holdMode
       THEN /\ acceptPc' = "parked"
            /\ UNCHANGED connState
       ELSE /\ acceptPc' = "accept"
            /\ connState' = [connState EXCEPT ![nconns] = "dropped"]
    /\ UNCHANGED <<retErr, pipe, gatePermit, unknownSent, mainVars>>

\* The error is reported as UnknownError and the loop goes on as after a
\* transient one.
DialUnexpectedLenient(e) ==
    /\ chanValue' = "UnknownError"
    /\ chanChanged' = TRUE
    /\ unknownSent' = TRUE
    /\ acceptPc' = "accept"
    /\ connState' = [connState EXCEPT ![nconns] = "dropped"]
    /\ UNCHANGED <<retErr, pipe, gatePermit, mainVars>>

\* The `_` arm (proxy/mod.rs:164-168) and `}?` (proxy/mod.rs:173):
\* UnknownError is sent and start() returns the dial error.
DialUnexpected(e) ==
    /\ chanValue' = "UnknownError"
    /\ chanChanged' = TRUE
    /\ unknownSent' = TRUE
    /\ Returns(e)
    /\ connState' = [connState EXCEPT ![nconns] = "dropped"]
    /\ UNCHANGED <<pipe, gatePermit, exited>>

\* connect(destination) completes with r (proxy/mod.rs:142-172).
TcpDial(r) ==
    /\ ~exited
    /\ acceptPc = "dial"
    /\ dialResult' = r
    /\ IF r = "Ok" THEN DialOk
       ELSE IF r \in TransientKinds THEN DialTransient
       ELSE DialUnexpected(r)
    /\ UNCHANGED <<holdMode, nconns>>
    /\ UNCHANGED <<timerVars, harnessVars, supVars>>
    /\ UNCHANGED udpVars

\* r.notified().await completes (proxy/mod.rs:158): the permit is taken
\* and the dial loop goes round (proxy/mod.rs:170).
TcpResume ==
    /\ ~exited
    /\ acceptPc = "parked"
    /\ gatePermit
    /\ gatePermit' = FALSE
    /\ acceptPc' = "dial"
    /\ dialResult' = "none"
    /\ UNCHANGED <<holdMode, retErr, nconns, connState, pipe>>
    /\ UNCHANGED <<chanValue, chanChanged, unknownSent>>
    /\ UNCHANGED <<timerVars, harnessVars, supVars, mainVars>>
    /\ UNCHANGED udpVars

\* The peer of the socket a task reads (the client for "up", the
\* destination for "down") writes one byte.
PeerWrite(q, b) ==
    /\ ~exited
    /\ connState[q[1]] = "piping"
    /\ ~pipe[q].closed
    /\ Written(Pipes) < MaxBytes
    /\ pipe' = [pipe EXCEPT ![q].inflight = Append(@, b),
                            ![q].sent = Append(@, b)]
    /\ UNCHANGED <<holdMode, acceptPc, dialResult, retErr, nconns, connState>>
    /\ UNCHANGED <<timerVars, harnessVars, supVars, chanVars, mainVars>>
    /\ UNCHANGED udpVars

\* The peer shuts down its sending side.
PeerClose(q) ==
    /\ ~exited
    /\ connState[q[1]] = "piping"
    /\ ~pipe[q].closed
    /\ pipe' = [pipe EXCEPT ![q].closed = TRUE]
    /\ UNCHANGED <<holdMode, acceptPc, dialResult, retErr, nconns, connState>>
    /\ UNCHANGED <<timerVars, harnessVars, supVars, chanVars, mainVars>>
    /\ UNCHANGED udpVars

\* reader.read(&mut reader_buffer) (proxy/mod.rs:55-58): n bytes, at most
\* BufferSize, land at the front of the buffer; at end of stream
\* bytes_read is 0 and the task returns Ok.
PipeRead(q, n) ==
    /\ ~exited
    /\ pipe[q].state = "reading"
    /\ IF pipe[q].inflight = <<>>
       THEN /\ pipe[q].closed
            /\ pipe' = [pipe EXCEPT ![q].state = "ended", ![q].nread = 0]
       ELSE /\ n <= Len(pipe[q].inflight)
            /\ pipe' = [pipe EXCEPT
                  ![q].rbuf = [i \in 1..BufferSize |->
                                 IF i <= n THEN pipe[q].inflight[i] ELSE @[i]],
                  ![q].nread = n,
                  ![q].inflight = SubSeq(@, n + 1, Len(@)),
                  ![q].state = "writing"]
    /\ UNCHANGED <<holdMode, acceptPc, dialResult, retErr, nconns, connState>>
    /\ UNCHANGED <<timerVars, harnessVars, supVars, chanVars, mainVars>>
    /\ UNCHANGED udpVars

\* The error ends both tasks of the connection, as it would were the two
\* directions joined in one task.
TaskErrorBoth(q) ==
    [r \in Pipes |->
       IF r[1] = q[1] /\ pipe[r].state \in {"reading", "writing"}
       THEN [pipe[r] EXCEPT !.state = "failed"] ELSE pipe[r]]

\* `?` in pipe_sockets (proxy/mod.rs:55): the task returns the error to
\* its JoinHandle, which tokio::task::spawn's caller dropped
\* (proxy/mod.rs:178-187); nobody reads it.
TaskError(q) == [pipe EXCEPT ![q].state = "failed"]

\* read fails and `?` ends the task (proxy/mod.rs:55).
PipeReadFail(q) ==
    /\ ~exited
    /\ pipe[q].state = "reading"
    /\ pipe' = TaskError(q)
    /\ UNCHANGED <<holdMode, acceptPc, dialResult, retErr, nconns, connState>>
    /\ UNCHANGED <<timerVars, harnessVars, supVars, chanVars, mainVars>>
    /\ UNCHANGED udpVars

\* What write_all is given: &reader_buffer[..bytes_read] (proxy/mod.rs:59).
ChunkWhole(p) == p.rbuf
Chunk(p) == SubSeq(p.rbuf, 1, p.nread)

\* writer.write_all(..) and send_replace(GotPacket) (proxy/mod.rs:59-60).
PipeWrite(q) ==
    /\ ~exited
    /\ pipe[q].state = "writing"
    /\ pipe' = [pipe EXCEPT ![q].out = @ \o Chunk(pipe[q]),
                            ![q].state = "reading"]
    /\ chanValue' = "GotPacket"
    /\ chanChanged' = TRUE
    /\ UNCHANGED <<gatePermit, unknownSent>>
    /\ UNCHANGED <<holdMode, acceptPc, dialResult, retErr, nconns, connState>>
    /\ UNCHANGED <<timerVars, harnessVars, supVars, mainVars>>
    /\ UNCHANGED udpVars

\* write_all fails after k bytes went out and `?` ends the task
\* (proxy/mod.rs:59).
PipeWriteFail(q, k) ==
    /\ ~exited
    /\ pipe[q].state = "writing"
    /\ k < pipe[q].nread
    /\ pipe' = [pipe EXCEPT ![q].out = @ \o SubSeq(Chunk(pipe[q]), 1, k),
                            ![q].state = "failed"]
    /\ UNCHANGED <<holdMode, acceptPc, dialResult, retErr, nconns, connState>>
    /\ UNCHANGED <<timerVars, harnessVars, supVars, chanVars, mainVars>>
    /\ UNCHANGED udpVars

\* ------------------------------------------------------------ the UDP proxy

\* Socket addresses: <<ip, port>>.
NoAddr == <<"0.0.0.0", "0">>
Destination == <<"10.0.0.9", "9000">>
Clients == {<<"10.0.0.1", "5001">>, <<"10.0.0.1", "5002">>}
Sources == Clients \cup {Destination}

\* format!("{}", src_addr) (proxy/udp.rs:78).
Format(a) == a[1] \o ":" \o a[2]
ClientIds == {Format(a) : a \in Clients}

Sessions == 1..MaxSessions

\* What or_insert_with sets up for one client (proxy/udp.rs:96-156):
\*   src     src_addr captured by the session's future
\*   phase   the future b: "none" | "binding" | "up" (in its recv loop)
\*           | "dead" (returned)
\*   drain   the task draining the queue: "none" | "alive" | "dead"
\*   queue   datagrams in the session's channel
\*   seen    the destination was sent a datagram from the backend socket
\*   sockIn  datagrams the destination sent to the backend socket, unread
NoSession ==
    [src |-> NoAddr, phase |-> "none", drain |-> "none", queue |-> 0,
     seen |-> FALSE, sockIn |-> 0]

\* client_receiver exists: held by b until it spawns the drain task, then
\* by that task.
ReceiverOpen(s) == sess[s].phase = "binding" \/ sess[s].drain = "alive"

\* backend_listener is open: an Arc shared by b and the drain task.
SocketOpen(s) == sess[s].phase = "up" \/ sess[s].drain = "alive"

\* The proxy is not the UDP one.
NoUdp ==
    /\ udpPc = "off"
    /\ udpSrc = NoAddr
    /\ nrecv = 0
    /\ clientMap = [id \in ClientIds |-> 0]
    /\ nsessions = 0
    /\ sess = [s \in Sessions |-> NoSession]
    /\ respQueue = <<>>
    /\ responder = "none"
    /\ nreplies = 0
    /\ delivered = {}

\* bind succeeded, the responder task is spawned, the map is empty
\* (proxy/udp.rs:58-73).
UdpListening ==
    /\ udpPc = "recv"
    /\ udpSrc = NoAddr
    /\ nrecv = 0
    /\ clientMap = [id \in ClientIds |-> 0]
    /\ nsessions = 0
    /\ sess = [s \in Sessions |-> NoSession]
    /\ respQueue = <<>>
    /\ responder = "alive"
    /\ nreplies = 0
    /\ delivered = {}

\* notification.send(v): a watch Sender's send fails, leaving the value,
\* once the receiver is dropped, which the supervisor task does by ending.
UdpSend(v) ==
    IF supPc = "failed"
    THEN UNCHANGED <<chanValue, chanChanged>>
    ELSE chanValue' = v /\ chanChanged' = TRUE

\* recv_from gives a datagram from src (proxy/udp.rs:76-156): GotPacket is
\* sent; a datagram from the destination is then ignored; for any other
\* the client's session is looked up by its formatted address, or created,
\* and the loop goes on to put the datagram on its queue.
UdpRecv(src) ==
    /\ ~exited
    /\ udpPc = "recv"
    /\ nrecv < MaxDatagrams
    /\ nrecv' = nrecv + 1
    /\ UdpSend("GotPacket")
    /\ IF src = Destination
       THEN UNCHANGED <<udpPc, udpSrc, clientMap, nsessions, sess>>
       ELSE /\ udpPc' = "send"
            /\ udpSrc' = src
            /\ IF clientMap[Format(src)] # 0
               THEN UNCHANGED <<clientMap, nsessions, sess>>
               ELSE /\ nsessions < MaxSessions
                    /\ nsessions' = nsessions + 1
                    /\ clientMap' =
                          [clientMap EXCEPT ![Format(src)] = nsessions + 1]
                    /\ sess' = [sess EXCEPT ![nsessions + 1] =
                                  [NoSession EXCEPT !.src = src,
                                                    !.phase = "binding"]]
    /\ UNCHANGED <<respQueue, responder, nreplies, delivered>>
    /\ UNCHANGED <<gatePermit, unknownSent>>
    /\ UNCHANGED <<timerVars, harnessVars, supVars, mainVars, tcpVars>>

\* The error is logged and nothing else is done.
EnqueueErrorLogged ==
    /\ UNCHANGED <<clientMap, chanValue, chanChanged>>
    /\ UNCHANGED sess

\* The Err arm of the match on sender.send (proxy/udp.rs:160-164): the map
\* entry is removed and DestinationNotResponding is sent.
EnqueueError ==
    /\ clientMap' = [clientMap EXCEPT ![Format(udpSrc)] = 0]
    /\ UdpSend("DestinationNotResponding")
    /\ UNCHANGED sess

\* sender.send(..).await completes (proxy/udp.rs:158-165): with an error
\* if the queue's receiver is gone, otherwise once the queue has room.
UdpEnqueue ==
    /\ ~exited
    /\ udpPc = "send"
    /\ LET s == clientMap[Format(udpSrc)]
       IN IF ~ReceiverOpen(s)
          THEN EnqueueError
          ELSE /\ sess[s].queue < QueueCap
               /\ sess' = [sess EXCEPT ![s].queue = @ + 1]
               /\ UNCHANGED <<clientMap, chanValue, chanChanged>>
    /\ udpPc' = "recv"
    /\ udpSrc' = NoAddr
    /\ UNCHANGED <<nrecv, nsessions, respQueue, responder, nreplies, delivered>>
    /\ UNCHANGED <<gatePermit, unknownSent>>
    /\ UNCHANGED <<timerVars, harnessVars, supVars, mainVars, tcpVars>>

\* recv_from fails and `?` returns the error (proxy/udp.rs:76).
UdpRecvFail ==
    /\ ~exited
    /\ udpPc = "recv"
    /\ udpPc' = "returned"
    /\ proxy' = "returned"
    /\ UNCHANGED <<udpSrc, nrecv, clientMap, nsessions, sess, respQueue,
                   responder, nreplies, delivered, exited>>
    /\ UNCHANGED <<timerVars, harnessVars, supVars, chanVars, tcpVars>>

\* The session's future binds and connects its backend socket and spawns
\* the drain task (proxy/udp.rs:103-129), or fails and returns, dropping
\* the queue's receiver.
SessionBind(s, ok) ==
    /\ ~exited
    /\ sess[s].phase = "binding"
    /\ sess' = [sess EXCEPT ![s] =
                  IF ok THEN [@ EXCEPT !.phase = "up", !.drain = "alive"]
                  ELSE [@ EXCEPT !.phase = "dead", !.queue = 0]]
    /\ UNCHANGED <<udpPc, udpSrc, nrecv, clientMap, nsessions, respQueue,
                   responder, nreplies, delivered>>
    /\ UNCHANGED <<timerVars, harnessVars, supVars, chanVars, mainVars, tcpVars>>

\* The drain task takes a datagram off the queue and sends it to the
\* destination (proxy/udp.rs:115-126); a send error ends the task, which
\* drops the receiver and its handle on the socket.
Drain(s, ok) ==
    /\ ~exited
    /\ sess[s].drain = "alive"
    /\ sess[s].queue > 0
    /\ sess' = [sess EXCEPT ![s] =
                  IF ok THEN [@ EXCEPT !.queue = @ - 1, !.seen = TRUE]
                  ELSE [@ EXCEPT !.drain = "dead", !.queue = 0,
                                 !.sockIn = IF sess[s].phase = "up"
                                            THEN @ ELSE 0]]
    /\ UNCHANGED <<udpPc, udpSrc, nrecv, clientMap, nsessions, respQueue,
                   responder, nreplies, delivered>>
    /\ UNCHANGED <<timerVars, harnessVars, supVars, chanVars, mainVars, tcpVars>>

\* The destination sends a datagram to the backend socket of session s.
DestReply(s) ==
    /\ ~exited
    /\ sess[s].seen
    /\ SocketOpen(s)
    /\ nreplies < MaxReplies
    /\ nreplies' = nreplies + 1
    /\ sess' = [sess EXCEPT ![s].sockIn = @ + 1]
    /\ UNCHANGED <<udpPc, udpSrc, nrecv, clientMap, nsessions, respQueue,
                   responder, delivered>>
    /\ UNCHANGED <<timerVars, harnessVars, supVars, chanVars, mainVars, tcpVars>>

\* The address a session's replies are tagged with: the first session's.
ReplyToFirst(s) == sess[1].src
\* The address a session's replies are tagged with: the src_addr its
\* future captured (proxy/udp.rs:136).
ReplyTo(s) == sess[s].src

\* backend_listener.recv and i_response_sender.send (proxy/udp.rs:132-142)
\* of session s: the datagram, tagged with the session's client address,
\* goes to the response channel once that has room; if the responder is
\* gone the send fails and the future returns.
BackendRecv(s) ==
    /\ ~exited
    /\ sess[s].phase = "up"
    /\ sess[s].sockIn > 0
    /\ IF responder = "dead"
       THEN /\ sess' = [sess EXCEPT ![s].phase = "dead",
                          ![s].sockIn = IF sess[s].drain = "alive"
                                        THEN @ - 1 ELSE 0]
            /\ UNCHANGED respQueue
       ELSE /\ Len(respQueue) < ResponseCap
            /\ sess' = [sess EXCEPT ![s].sockIn = @ - 1]
            /\ respQueue' = Append(respQueue,
                                   [addr |-> ReplyTo(s), origin |-> s])
    /\ UNCHANGED <<udpPc, udpSrc, nrecv, clientMap, nsessions, responder,
                   nreplies, delivered>>
    /\ UNCHANGED <<timerVars, harnessVars, supVars, chanVars, mainVars, tcpVars>>

\* backend_listener.recv fails and `?` ends the session's future
\* (proxy/udp.rs:133); the drain task is not affected.
BackendFail(s) ==
    /\ ~exited
    /\ sess[s].phase = "up"
    /\ sess' = [sess EXCEPT ![s].phase = "dead",
                  ![s].sockIn = IF sess[s].drain = "alive" THEN @ ELSE 0]
    /\ UNCHANGED <<udpPc, udpSrc, nrecv, clientMap, nsessions, respQueue,
                   responder, nreplies, delivered>>
    /\ UNCHANGED <<timerVars, harnessVars, supVars, chanVars, mainVars, tcpVars>>

\* UDPProxy::respond (proxy/udp.rs:37-55): the next response is sent from
\* the listen socket to the address it is tagged with; a send error ends
\* the task and closes the channel.
Respond(ok) ==
    /\ ~exited
    /\ responder = "alive"
    /\ respQueue # <<>>
    /\ IF ok
       THEN /\ delivered' = delivered \cup
                  {[to |-> Head(respQueue).addr,
                    origin |-> Head(respQueue).origin]}
            /\ respQueue' = Tail(respQueue)
            /\ UNCHANGED responder
       ELSE /\ responder' = "dead"
            /\ respQueue' = <<>>
            /\ UNCHANGED delivered
    /\ UNCHANGED <<udpPc, udpSrc, nrecv, clientMap, nsessions, sess, nreplies>>
    /\ UNCHANGED <<timerVars, harnessVars, supVars, chanVars, mainVars, tcpVars>>

\* One unit of time passes.
Tick ==
    /\ ~exited
    /\ sleepLeft' = IF timerState = "running" THEN Max(sleepLeft - 1, 0)
                    ELSE sleepLeft
    /\ sinceReset' = Min(sinceReset + 1, IdleTimeout)
    /\ proc' = [i \in Instances |->
                 [proc[i] EXCEPT
                    !.killLeft = IF proc[i].kill = "pending"
                                 THEN Max(@ - 1, 0) ELSE @,
                    !.sinceTerm = IF proc[i].termed /\ proc[i].state # "reaped"
                                  THEN Min(@ + 1, GracePeriod) ELSE @]]
    /\ UNCHANGED <<timerState, waiterNotified, notifyPermit, abandoned>>
    /\ UNCHANGED <<resets, spaced>>
    /\ UNCHANGED <<supPc, children, draining, nspawned, chanVars, mainVars>>
    /\ UNCHANGED netVars

\* No supervisor task, no process, an untouched channel.
InitRest ==
    /\ children = <<>>
    /\ draining = <<>>
    /\ proc = [i \in Instances |-> NoProc]
    /\ nspawned = 0
    /\ chanValue = "Nothing"
    /\ chanChanged = FALSE
    /\ gatePermit = FALSE
    /\ unknownSent = FALSE
    /\ proxy = "serving"
    /\ exited = FALSE

InitTimer ==
    /\ timerState = "spawned"
    /\ sleepLeft = NewSleep
    /\ waiterNotified = FALSE
    /\ notifyPermit = FALSE
    /\ abandoned = <<>>
    /\ sinceReset = 0
    /\ resets = 0
    /\ spaced = TRUE
    /\ supPc = "none"
    /\ InitRest
    /\ NoTcp
    /\ NoUdp

NextTimer ==
    \/ TimerFirstPoll
    \/ \E order \in SelectOrder : TimerTaskPoll(order)
    \/ HarnessReset
    \/ Tick

\* run_after(IdleTimeout) has just returned; the guard's owner resets at will.
SpecTimer == InitTimer /\ [][NextTimer]_vars

\* The guard's owner also replaces the timer and resets the guards it kept.
NextCycles ==
    \/ TimerFirstPoll
    \/ \E order \in SelectOrder : TimerTaskPoll(order)
    \/ HarnessReset
    \/ HarnessAbandon
    \/ \E k \in 1..MaxAbandoned : StaleReset(k)
    \/ Tick

SpecCycles == InitTimer /\ [][NextCycles]_vars

\* The runtime polls a woken task and time passes.
SpecTimerFair ==
    /\ SpecTimer
    /\ WF_vars(Tick)
    /\ WF_vars(TimerFirstPoll)
    /\ WF_vars(\E order \in SelectOrder : TimerTaskPoll(order))

\* ------------------------------------------------------- the whole program

\* main has spawned the supervisor task (main.rs:80-85); the task has not
\* run yet.
InitMain ==
    /\ timerState = "none"
    /\ sleepLeft = NewSleep
    /\ waiterNotified = FALSE
    /\ notifyPermit = FALSE
    /\ abandoned = <<>>
    /\ sinceReset = 0
    /\ resets = 0
    /\ spaced = TRUE
    /\ supPc = "start"
    /\ InitRest

\* main has started a proxy (main.rs:141-155), seen through the events it
\* publishes only.
Init ==
    /\ InitMain
    /\ NoTcp
    /\ NoUdp

SupOrder == {"handle", "changed"}

Next ==
    \/ \E ok \in BOOLEAN, p \in PidSpace : SupervisorStart(ok, p)
    \/ \E order \in SupOrder : SupExpired(order)
    \/ \E order \in SupOrder, ok \in BOOLEAN, p \in PidSpace :
          SupEvent(order, ok, p)
    \/ \E termOk \in BOOLEAN : SupTerm(termOk)
    \/ SupWait
    \/ SupWaitFail
    \/ \E i \in Instances : ChildExit(i)
    \/ \E i \in Instances : KillFire(i)
    \/ TimerFirstPoll
    \/ \E order \in SelectOrder : TimerTaskPoll(order)
    \/ PublishGotPacket
    \/ PublishDestinationNotResponding
    \/ PublishUnknownError
    \/ ProgramExit
    \/ Tick

Spec == Init /\ [][Next]_vars

\* The runtime polls every task that can run, sleeps elapse and main returns
\* once the proxy has.  Nothing obliges a client to send anything or a child
\* to exit on SIGTERM.
FairSpec ==
    /\ Spec
    /\ WF_vars(\E ok \in BOOLEAN, p \in PidSpace : SupervisorStart(ok, p))
    /\ WF_vars(\E order \in SupOrder : SupExpired(order))
    /\ WF_vars(\E order \in SupOrder, ok \in BOOLEAN, p \in PidSpace :
                 SupEvent(order, ok, p))
    /\ WF_vars(\E termOk \in BOOLEAN : SupTerm(termOk))
    /\ WF_vars(SupWait)
    /\ WF_vars(\E i \in Instances : KillFire(i))
    /\ WF_vars(TimerFirstPoll)
    /\ WF_vars(\E order \in SelectOrder : TimerTaskPoll(order))
    /\ WF_vars(ProgramExit)
    /\ WF_vars(Tick)

\* ------------------------------------ the program with the TCP proxy

InitTCP ==
    /\ InitMain
    /\ TcpListening
    /\ NoUdp

\* The supervisor's handling of events and the accept loop of the TCP
\* proxy; the forwarding tasks are seen through the GotPacket they publish.
\* No time passes.
NextTCP ==
    \/ \E ok \in BOOLEAN, p \in PidSpace : SupervisorStart(ok, p)
    \/ \E order \in SupOrder, ok \in BOOLEAN, p \in PidSpace :
          SupEvent(order, ok, p)
    \/ ProgramExit
    \/ PublishGotPacket
    \/ TcpAccept
    \/ TcpAcceptFail
    \/ TcpSocketFail
    \/ \E r \in {"Ok"} \cup ErrorKinds : TcpDial(r)
    \/ TcpResume

SpecTCP == InitTCP /\ [][NextTCP]_vars

\* ------------------------- the program with the TCP proxy and its gate

\* --hold-packets: start() is given can_proxy_resume (main.rs:149-153).
InitHold ==
    /\ InitTCP
    /\ holdMode = TRUE

\* send_replace(GotPacket) of a forwarding task of a dialled connection
\* (proxy/mod.rs:60).
TaskGotPacket ==
    /\ \E c \in Conns : connState[c] = "piping"
    /\ PublishGotPacket

\* The whole supervisor, the clock, the accept loop of the TCP proxy and
\* the GotPacket of its forwarding tasks.
NextHold ==
    \/ \E ok \in BOOLEAN, p \in PidSpace : SupervisorStart(ok, p)
    \/ \E order \in SupOrder : SupExpired(order)
    \/ \E order \in SupOrder, ok \in BOOLEAN, p \in PidSpace :
          SupEvent(order, ok, p)
    \/ \E termOk \in BOOLEAN : SupTerm(termOk)
    \/ SupWait
    \/ SupWaitFail
    \/ \E i \in Instances : ChildExit(i)
    \/ \E i \in Instances : KillFire(i)
    \/ TimerFirstPoll
    \/ \E order \in SelectOrder : TimerTaskPoll(order)
    \/ TaskGotPacket
    \/ ProgramExit
    \/ Tick
    \/ TcpAccept
    \/ TcpAcceptFail
    \/ TcpSocketFail
    \/ \E r \in {"Ok"} \cup ErrorKinds : TcpDial(r)
    \/ TcpResume

SpecHold == InitHold /\ [][NextHold]_vars

\* The runtime polls every task that can run, sleeps elapse, a connect()
\* under way completes and main returns once the proxy has.  Nothing
\* obliges a client to connect or to send, or a child to exit on SIGTERM.
FairSpecHold ==
    /\ SpecHold
    /\ WF_vars(\E ok \in BOOLEAN, p \in PidSpace : SupervisorStart(ok, p))
    /\ WF_vars(\E order \in SupOrder : SupExpired(order))
    /\ WF_vars(\E order \in SupOrder, ok \in BOOLEAN, p \in PidSpace :
                 SupEvent(order, ok, p))
    /\ WF_vars(\E termOk \in BOOLEAN : SupTerm(termOk))
    /\ WF_vars(SupWait)
    /\ WF_vars(\E i \in Instances : KillFire(i))
    /\ WF_vars(TimerFirstPoll)
    /\ WF_vars(\E order \in SelectOrder : TimerTaskPoll(order))
    /\ WF_vars(ProgramExit)
    /\ WF_vars(Tick)
    /\ WF_vars(\E r \in {"Ok"} \cup ErrorKinds : TcpDial(r))
    /\ WF_vars(TcpResume)

\* ------------------------------- the forwarding tasks of one connection

\* The first connection has been accepted and dialled; its two tasks are
\* spawned (proxy/mod.rs:175-188).
InitPipes ==
    /\ InitMain
    /\ holdMode = FALSE
    /\ acceptPc = "accept"
    /\ dialResult = "Ok"
    /\ retErr = "none"
    /\ nconns = 1
    /\ connState = [c \in Conns |-> IF c = 1 THEN "piping" ELSE "none"]
    /\ pipe = [q \in Pipes |->
                 IF q[1] = 1 THEN [NoPipe EXCEPT !.state = "reading"]
                 ELSE NoPipe]
    /\ NoUdp

NextPipes ==
    \/ \E q \in Pipes, b \in Bytes : PeerWrite(q, b)
    \/ \E q \in Pipes : PeerClose(q)
    \/ \E q \in Pipes, n \in 1..BufferSize : PipeRead(q, n)
    \/ \E q \in Pipes : PipeReadFail(q)
    \/ \E q \in Pipes : PipeWrite(q)
    \/ \E q \in Pipes, k \in 0..BufferSize : PipeWriteFail(q, k)

SpecPipes == InitPipes /\ [][NextPipes]_vars

\* ------------------- the accept loop and the forwarding tasks it spawns

\* No gate: a transient dial failure drops the connection
\* (proxy/mod.rs:159-161).
InitForward ==
    /\ InitTCP
    /\ holdMode = FALSE

\* The accept loop of the TCP proxy and the forwarding tasks of every
\* connection it dialled; the supervisor does not run.  Every dial
\* succeeds, the clients write zeros, the destination writes nothing and
\* every read takes one byte: failed dials are the matter of SpecTCP, what
\* is forwarded that of SpecPipes.
NextForward ==
    \/ TcpAccept
    \/ TcpDial("Ok")
    \/ \E c \in Conns :
          Written(Pipes) < ForwardBytes /\ PeerWrite(<<c, "up">>, 0)
    \/ \E q \in Pipes : PeerClose(q)
    \/ \E q \in Pipes : PipeRead(q, 1)
    \/ \E q \in Pipes : PipeReadFail(q)
    \/ \E q \in Pipes : PipeWrite(q)
    \/ \E q \in Pipes : PipeWriteFail(q, 0)

SpecForward == InitForward /\ [][NextForward]_vars

\* ------------------------------------ the program with the UDP proxy

InitUDP ==
    /\ InitMain
    /\ NoTcp
    /\ UdpListening

\* The receive loop of the UDP proxy, its sessions, the responder and the
\* destination's replies, up to the return of start(); the supervisor task
\* starts, or fails to and drops the channel's receiver, and reads no
\* event here.  No time passes.
NextUDP ==
    \/ \E ok \in BOOLEAN, p \in PidSpace : SupervisorStart(ok, p)
    \/ \E src \in Sources : UdpRecv(src)
    \/ UdpEnqueue
    \/ UdpRecvFail
    \/ \E s \in Sessions, ok \in BOOLEAN : SessionBind(s, ok)
    \/ \E s \in Sessions, ok \in BOOLEAN : Drain(s, ok)
    \/ \E s \in Sessions : DestReply(s)
    \/ \E s \in Sessions : BackendRecv(s)
    \/ \E s \in Sessions : BackendFail(s)
    \/ \E ok \in BOOLEAN : Respond(ok)

SpecUDP == InitUDP /\ [][NextUDP]_vars

\* ------------------------------------------------------------------ claims

\* The timer task completes in this step.
Completes == timerState # "done" /\ timerState' = "done"

\* C1: for resets spaced strictly less than the duration apart, the timer
\* task does not complete until the duration has elapsed after the last
\* reset: no reset issued before the deadline is lost to the expiry.
ResetNeverLost ==
    [][Completes /\ spaced => sinceReset >= IdleTimeout]_vars

\* C2: with no reset at all the timer completes exactly once (it does
\* complete, and a completed task stays so), and never before the duration
\* has elapsed since run_after.
NoResetExpiry ==
    /\ [][Completes /\ resets = 0 => sinceReset >= IdleTimeout]_vars
    /\ [][timerState = "done" => timerState' = "done"]_vars
    /\ <>(resets > 0 \/ timerState = "done")

\* The timer has completed without any reset having been made.
NoResetExpired == timerState = "done" /\ resets = 0 /\ notifyPermit = FALSE

\* The task of instance i sends its SIGKILL in this step.
Fires(i) == proc[i].kill = "pending" /\ proc'[i].kill = "fired"

\* C3: while the supervisor observes GotPacket events less than IdleTimeout
\* apart (counted from the start of the cycle), the idle timer has not
\* expired and no step sends SIGTERM or SIGKILL to the process group of a
\* tracked child.
KeptAliveByPackets ==
    /\ [](supPc = "select" /\ sinceReset < IdleTimeout => timerState # "done")
    /\ [][supPc = "select" /\ sinceReset < IdleTimeout
            => \A c \in Tracked :
                 /\ proc'[c].termed = proc[c].termed
                 /\ \A i \in Instances : Fires(i) => c \notin Holder(proc[i].pid)]_vars

\* C4: a child's process group is sent SIGKILL only after it was sent
\* SIGTERM, and not earlier than GracePeriod after that SIGTERM; a child
\* sent SIGTERM at teardown that is still running when the grace period
\* ends has its SIGKILL due or delivered.
EscalationOrder ==
    /\ [][\A i \in Instances : Fires(i) =>
            \A j \in Holder(proc[i].pid) :
                proc[j].termed /\ proc[j].sinceTerm >= GracePeriod]_vars
    /\ [](\A i \in Instances :
            proc[i].termed /\ proc[i].state = "running"
               /\ proc[i].sinceTerm >= GracePeriod
            => \/ proc[i].kill = "fired"
               \/ proc[i].kill = "pending" /\ proc[i].killLeft = 0)

\* C5: every DestinationNotResponding published while the supervisor loop
\* runs is eventually followed by the supervisor spawning a child (or by
\* the end of the loop or of the program).
RespawnFollows ==
    \A n \in 0..MaxSpawns :
        (/\ chanValue = "DestinationNotResponding" /\ chanChanged
         /\ supPc \in {"select", "term", "wait"} /\ nspawned = n)
        ~> (nspawned > n \/ supPc = "failed" \/ exited)

\* The supervisor takes a value from the channel in this step.
TakesEvent == supPc = "select" /\ chanChanged /\ ~chanChanged'

\* C6: once an UnknownError has been sent into the channel the supervisor
\* handles no other event: the next value it takes ends its loop with the
\* error, and after that it does nothing.
UnknownErrorHalts ==
    [][unknownSent /\ TakesEvent => supPc' = "failed"]_vars

\* What the supervisor task can no longer do once it has returned: spawn,
\* take an event, send SIGTERM, start a timer or reset one.
SupervisorIdle ==
    /\ supPc' = supPc
    /\ UNCHANGED <<children, draining, nspawned, gatePermit>>
    /\ chanChanged => chanChanged'
    /\ \A i \in Instances : proc'[i].termed = proc[i].termed
    /\ timerState' = "spawned" => timerState = "spawned"
    /\ notifyPermit' => notifyPermit
    /\ waiterNotified' => waiterNotified

\* C6, amended: an UnknownError the supervisor takes from the channel ends
\* its loop with the error, and a supervisor that has ended does nothing.
ObservedUnknownErrorHalts ==
    [][/\ TakesEvent /\ chanValue = "UnknownError" => supPc' = "failed"
       /\ supPc = "failed" => SupervisorIdle]_vars

\* The supervisor has read UnknownError from the channel and its task has
\* returned, after it had spawned a child.
HaltedOnUnknownError ==
    /\ supPc = "failed"
    /\ chanValue = "UnknownError"
    /\ ~chanChanged
    /\ nspawned >= 1

\* The kinds of dial failure the claims call transient.
ClaimedTransient ==
    {"ConnectionRefused", "ConnectionReset", "ConnectionAborted",
     "BrokenPipe", "TimedOut"}

\* connect() completes in this step.
Dialled == acceptPc = "dial" /\ dialResult = "none" /\ dialResult' # "none"

\* No forwarding task exists for connection c.
NoTasks(c) == \A d \in Dirs : pipe[<<c, d>>].state = "unspawned"

\* C7: a dial failure of kind connection refused, reset, aborted, broken
\* pipe or timed out publishes DestinationNotResponding, not UnknownError,
\* and does not make start() return; without a readiness gate the accept
\* loop drops that connection and is back at accept.
TransientDialPublishes ==
    /\ [][Dialled /\ dialResult' \in ClaimedTransient
          => /\ chanValue' = "DestinationNotResponding"
             /\ chanChanged'
             /\ unknownSent' = unknownSent
             /\ acceptPc' # "returned"
             /\ proxy' = "serving"
             /\ ~holdMode => /\ acceptPc' = "accept"
                             /\ connState'[nconns] = "dropped"]_vars
    /\ [](acceptPc = "returned" => retErr \notin ClaimedTransient)

\* Without a gate, a connection was abandoned on a transient dial failure
\* and a later one was accepted and is being forwarded.
ServedAfterTransient ==
    /\ ~holdMode
    /\ acceptPc = "accept"
    /\ \E c \in Conns, d \in Conns :
          /\ c < d
          /\ connState[c] = "dropped"
          /\ connState[d] = "piping"

\* C8: a dial failure of a kind outside the transient set publishes
\* UnknownError and makes start() return that dial error: the accept loop
\* is over (nothing is accepted after it) and no forwarding task exists
\* for that connection.
UnexpectedDialTerminates ==
    /\ [][Dialled /\ dialResult' \notin ClaimedTransient \cup {"Ok"}
          => /\ chanValue' = "UnknownError"
             /\ chanChanged'
             /\ acceptPc' = "returned"
             /\ retErr' = dialResult'
             /\ proxy' = "returned"
             /\ \A d \in Dirs : pipe'[<<nconns, d>>].state = "unspawned"]_vars
    /\ [][acceptPc = "returned"
          => acceptPc' = "returned" /\ nconns' = nconns /\ pipe' = pipe]_vars

\* start() has returned a non-transient dial error of the second
\* connection, after the first was dialled and is being forwarded.
ReturnedDialError ==
    /\ acceptPc = "returned"
    /\ retErr \in ErrorKinds \ ClaimedTransient
    /\ unknownSent
    /\ nconns = 2
    /\ connState[1] = "piping"
    /\ NoTasks(2)

IsPrefix(s, t) == Len(s) <= Len(t) /\ SubSeq(t, 1, Len(s)) = s

\* C9: what a forwarding task has written to its writer is at all times a
\* prefix of what the peer wrote to its reader; while the task runs no byte
\* is lost (written, buffered and unread bytes make up the peer's sequence,
\* whatever the sizes of the reads); at end of stream the writer has
\* received exactly the peer's bytes in order; and every completed write
\* publishes GotPacket.
ByteFidelity ==
    /\ [](\A q \in Pipes :
            LET p == pipe[q]
                held == IF p.state = "writing"
                        THEN SubSeq(p.rbuf, 1, p.nread) ELSE <<>>
            IN /\ IsPrefix(p.out, p.sent)
               /\ p.state \in {"reading", "writing"}
                    => p.out \o held \o p.inflight = p.sent
               /\ p.state = "ended" => p.out = p.sent)
    /\ [][\A q \in Pipes :
            pipe'[q].out # pipe[q].out /\ pipe'[q].state # "failed"
            => chanValue' = "GotPacket" /\ chanChanged']_vars

\* A sequence longer than the buffer, holding both byte values, went
\* through in more than one read and reached its end of stream.
ForwardedInChunks ==
    \E q \in Pipes :
        /\ pipe[q].state = "ended"
        /\ Len(pipe[q].sent) > BufferSize
        /\ pipe[q].out = pipe[q].sent
        /\ 0 \in {pipe[q].sent[i] : i \in 1..Len(pipe[q].sent)}
        /\ 1 \in {pipe[q].sent[i] : i \in 1..Len(pipe[q].sent)}
        /\ chanValue = "GotPacket"

\* C10: every reply sent from the listen socket, and every reply waiting in
\* the response channel, goes to the client address of the session on
\* whose backend socket it was received: nothing received on one client's
\* backend socket is delivered to another client.
NoCrossDelivery ==
    /\ \A d \in delivered : sess[d.origin].src = d.to
    /\ \A i \in 1..Len(respQueue) :
          sess[respQueue[i].origin].src = respQueue[i].addr

\* Both clients have a session of their own and each has been sent a reply.
BothClientsAnswered ==
    \A a \in Clients :
        \E d \in delivered :
            d.to = a /\ sess[d.origin].src = a /\ clientMap[Format(a)] = d.origin

\* A task or the backend socket of session s still exists.
SessionLive(s) ==
    sess[s].phase \in {"binding", "up"} \/ sess[s].drain = "alive"

\* C11: at every moment at most one session (backend socket and forwarding
\* tasks) exists per client source address, also after a session was
\* removed from the map on a send failure and a later datagram from the
\* same address created a new one.
OneSessionPerClient ==
    \A a \in Clients :
        Cardinality({s \in Sessions : sess[s].src = a /\ SessionLive(s)}) <= 1

\* recv_from gives a datagram whose source is the destination in this step:
\* the only datagrams after which the loop is back at recv_from at once.
FromDestination == udpPc = "recv" /\ nrecv' = nrecv + 1 /\ udpPc' = "recv"

\* C12: a datagram received from the destination's address is ignored: it
\* creates no session, is put on no queue and publishes no GotPacket.
DestinationIgnored ==
    [][FromDestination
       => /\ UNCHANGED <<clientMap, nsessions, sess>>
          /\ UNCHANGED <<chanValue, chanChanged>>]_vars

\* sender.send(..).await completes with an error in this step.
EnqueueFails ==
    /\ udpPc = "send"
    /\ udpPc' # "send"
    /\ ~ReceiverOpen(clientMap[Format(udpSrc)])

\* C13: when enqueueing a datagram fails because the queue's receiver is
\* gone, the client's map entry is removed, DestinationNotResponding is
\* sent (and is the channel's new value as long as the channel has its
\* receiver), and the loop is back at recv_from: start() has not returned.
EnqueueFailureHandled ==
    [][EnqueueFails
       => /\ clientMap'[Format(udpSrc)] = 0
          /\ \A id \in ClientIds \ {Format(udpSrc)} :
                clientMap'[id] = clientMap[id]
          /\ supPc # "failed"
                => chanValue' = "DestinationNotResponding" /\ chanChanged'
          /\ udpPc' = "recv"
          /\ proxy' = "serving"]_vars

\* A client's session was removed after a failed enqueue and a later
\* datagram from the same address has been given a new one.
SessionRecreated ==
    \E s \in Sessions, t \in Sessions :
        /\ s < t
        /\ sess[s].src = sess[t].src
        /\ sess[t].phase = "binding"
        /\ ~ReceiverOpen(s)
        /\ clientMap[Format(sess[t].src)] = t

\* C14: with a gate, an accept loop parked after a transient dial failure
\* is eventually released to dial again (or the program ends): no waiter
\* stays parked forever.
ParkedIsReleased == acceptPc = "parked" ~> (acceptPc # "parked" \/ exited)

\* The supervisor task has ended on a spawn error (main.rs:86, 116): no
\* UnknownError was ever sent, so `?` on spawn_child is what ended it.
SpawnFailed == supPc = "failed" /\ ~unknownSent

\* C15: a spawn failure, of the first child or of a respawn, ends the
\* whole program: once the supervisor task has returned the spawn error,
\* main returns too.
SpawnFailureIsFatal == SpawnFailed ~> exited

\* A step of the drain that found kill_process_group(SIGTERM) failing.
TermFails ==
    /\ supPc = "term"
    /\ supPc' \notin {"term", "wait"} \/ draining' # draining

\* A step of the drain in which c.wait() returns, with Ok or with Err.
WaitReturns ==
    /\ supPc = "wait"
    /\ supPc' # "wait"

\* C16: a failure of SIGTERM on one child of an idle teardown, or a return
\* of wait on it, failed or not, drops that child only: the drain goes on to
\* the next tracked child, which is signaled next, and after the last one
\* the loop starts a new cycle with a new timer; the supervisor task does
\* not end.
TeardownSurvivesFailure ==
    [][TermFails \/ WaitReturns
       => /\ draining' = Tail(draining)
          /\ supPc' = IF Tail(draining) = <<>> THEN "select" ELSE "term"
          /\ Tail(draining) = <<>> => timerState' = "spawned"
          /\ children' = children]_vars

\* SIGTERM failed on the first child of a teardown, the second one was
\* signaled all the same, and the loop is in a new cycle.
SecondChildStillSignaled ==
    /\ nspawned = 2
    /\ 1 \notin Tracked
    /\ ~proc[1].termed
    /\ proc[2].termed
    /\ supPc = "select"
    /\ timerState = "spawned"

\* C17: a child that was sent SIGTERM and has not been reaped has its
\* delayed SIGKILL pending or delivered.
KillEscalationKept ==
    \A i \in Instances :
        proc[i].termed /\ proc[i].state \in {"running", "zombie"}
            => proc[i].kill \in {"pending", "fired"}

\* The time the supervisor's timer has left to sleep before it completes.
Remaining == IF timerState = "done" THEN 0 ELSE sleepLeft

\* C18: the supervisor's handling of a DestinationNotResponding or of a
\* Nothing leaves the idle countdown as it is: the time left until the
\* expiry is the same after the event as before it.
OtherEventsKeepCountdown ==
    [][TakesEvent /\ chanValue \in {"DestinationNotResponding", "Nothing"}
       => Remaining' = Remaining]_vars

\* The supervisor finishes the handling of an idle-timer expiry in this
\* step: the drain is over and the next cycle starts.
ExpiryHandled ==
    /\ \/ supPc \in {"term", "wait"}
       \/ supPc = "select" /\ timerState = "done" /\ ~TakesEvent
    /\ supPc' = "select"
    /\ timerState' = "spawned"

\* C19: when the handling of an idle-timer expiry ends no child is tracked,
\* and from then on the supervisor tracks and spawns no child except in a
\* step that takes a DestinationNotResponding from the channel.
NoChildUntilNotResponding ==
    /\ [][ExpiryHandled => Tracked' = {}]_vars
    /\ [][/\ supPc = "select"
          /\ Tracked = {}
          /\ ~(TakesEvent /\ chanValue = "DestinationNotResponding")
          => Tracked' = {} /\ nspawned' = nspawned
             /\ \A i \in Instances :
                   proc'[i].state = "running" => proc[i].state = "running"]_vars

\* The only child was torn down and reaped, and part of the next cycle has
\* gone by with no child tracked and none spawned.
IdleWithNoChild ==
    /\ supPc = "select"
    /\ Tracked = {}
    /\ nspawned = 1
    /\ proc[1].state = "reaped"
    /\ timerState = "running"
    /\ sleepLeft < NewSleep

\* The owner replaces the timer in this step.
Abandons == Len(abandoned') > Len(abandoned)

\* reset() is called in this step on the guard of an abandoned timer.
ResetsOldGuard ==
    /\ ~Abandons
    /\ \E k \in DOMAIN abandoned : abandoned'[k] > abandoned[k]

\* C20: a timer that has completed stays completed whatever reset() calls
\* follow, until run_after makes a new timer; a reset() on the guard of an
\* abandoned timer leaves the current timer's state, sleep and Notify as
\* they are; and a new timer starts with the whole duration and a Notify
\* that holds no permit, whatever resets the timers before it were given.
LateResetIsVoid ==
    /\ [][timerState = "done" /\ ~Abandons
             => timerState' = "done" /\ sleepLeft' = sleepLeft]_vars
    /\ [][ResetsOldGuard
             => UNCHANGED <<timerState, sleepLeft, waiterNotified,
                            notifyPermit>>]_vars
    /\ [][Abandons
             => /\ timerState' = "spawned"
                /\ sleepLeft' = NewSleep
                /\ ~waiterNotified' /\ ~notifyPermit']_vars

\* The first timer was reset after it had been replaced, and the timer of
\* the later cycle has completed without a reset of its own before, and was
\* reset after that.
LaterCycleCompleted ==
    /\ abandoned # <<>>
    /\ abandoned[1] > 0
    /\ timerState = "done"
    /\ resets = 0
    /\ notifyPermit

\* The forwarding task q ends with an error in this step.
TaskFails(q) ==
    pipe[q].state \in {"reading", "writing"} /\ pipe'[q].state = "failed"

\* The forwarding task q ends on a zero-length read in this step.
TaskEnds(q) == pipe[q].state = "reading" /\ pipe'[q].state = "ended"

\* Every forwarding task but q, the accept loop and the connections.
OthersUntouched(q) ==
    /\ \A r \in Pipes \ {q} : pipe'[r] = pipe[r]
    /\ UNCHANGED <<acceptPc, retErr, nconns, connState, proxy, exited>>

\* C21: a forwarding task that ends on a read or write error ends alone:
\* every other task, of its connection or of another, is as it was, the
\* accept loop is where it was and start() has not returned, and nothing is
\* sent into the channel; a task that ends on a zero-length read ends with
\* Ok, alone too, and sends nothing either.
TaskEndsAlone ==
    /\ [][\A q \in Pipes :
            TaskFails(q) \/ TaskEnds(q)
               => OthersUntouched(q) /\ UNCHANGED chanVars]_vars
    /\ [](\A q \in Pipes :
            pipe[q].state = "ended" => pipe[q].closed /\ pipe[q].inflight = <<>>)

\* The client-to-destination task of the first connection has failed in
\* write_all, the opposite task is reading, a second connection was accepted
\* and dialled, and one of its tasks has ended on a zero-length read with
\* nothing ever sent into the channel.
FailedTaskAmongLiveOnes ==
    /\ pipe[<<1, "up">>].state = "failed"
    /\ pipe[<<1, "up">>].nread = 1
    /\ pipe[<<1, "down">>].state = "reading"
    /\ connState[2] = "piping"
    /\ pipe[<<2, "down">>].state = "ended"
    /\ pipe[<<2, "up">>].state = "reading"
    /\ acceptPc = "accept"
    /\ ~chanChanged

\* C22: the delayed SIGKILL of a teardown whose child has exited by the
\* time it fires changes the state of no process: no child spawned after
\* that teardown is terminated by it.
LateKillIsNoOp ==
    [][\A i \in Instances :
          Fires(i) /\ proc[i].state \in {"zombie", "reaped"}
             => \A j \in Instances : proc'[j].state = proc[j].state]_vars

\* C23: the supervisor tracks at most one child at any time.
AtMostOneChild == Cardinality(Tracked) <= 1

\* A task of session s has exited: its future b (the bind, the connect and
\* the backend receive loop) or, once spawned, its drain task.
TaskExited(s) == sess[s].phase = "dead" \/ sess[s].drain = "dead"

\* sender.send(..).await completes in this step.
EnqueueReturns == udpPc = "send" /\ udpPc' = "recv"

\* C24: a datagram from a client whose session has lost either of its tasks
\* fails to enqueue: the send completes with the session's entry removed
\* from the map.
DeadSessionIsRemoved ==
    [][EnqueueReturns /\ TaskExited(clientMap[Format(udpSrc)])
          => clientMap'[Format(udpSrc)] = 0]_vars

====
